---- MODULE Spec2Model ----
(***************************************************************************)
(* BrokerLog (src/src/broker/record.rs): the broker's event ledger of the  *)
(* alator back-testing library.  The ledger is a Vec of recorded events;   *)
(* record pushes to it, and trades, dividends, trades_between,             *)
(* dividends_between and cost_basis are computed from it on every call.    *)
(*                                                                         *)
(* Numbers.  PortfolioQty, CashValue and Price wrap f64.  The model keeps  *)
(* quantities and values in the integers, where f64 addition and           *)
(* subtraction are exact, and keeps the quotient cum_val / cum_qty as the  *)
(* exact fraction in lowest terms (two f64 quotients of small integers are *)
(* equal exactly when the fractions are).  A zero divisor gives the IEEE   *)
(* results NaN and +-infinity, written with denominator 0.                 *)
(***************************************************************************)
EXTENDS Integers, Sequences, FiniteSets

VARIABLES
    log,    \* BrokerLog.log: Vec<BrokerRecordedEvent>
    call,   \* the last method called on the ledger, with its arguments
    ret,    \* the value that call returned, owned by the caller
    arith   \* the divisors of the divisions that call executed

vars == <<log, call, ret, arith>>

-----------------------------------------------------------------------------
(* Bounds of the model *)

MaxLog == 3        \* events recorded in one run (Spec, SpecCost)
MaxDate == 2       \* trade and dividend dates are 1..MaxDate
MaxQty == 2        \* largest trade quantity
MaxShort == 1      \* quantities go down to -MaxShort: record validates nothing
MaxValue == 2      \* trade values are 1..MaxValue

Symbols == {"ABC", "BCD"}
TradeTypes == {"Buy", "Sell"}
Dates == 1..MaxDate
Quantities == (0 - MaxShort)..MaxQty
Values == 1..MaxValue

-----------------------------------------------------------------------------
(* Types used by the ledger (crate::types, crate::broker) *)

\* DateTime::from(i64): the timestamp newtype over the integer time value.
DateTimeFrom(t) == [ts |-> t]

\* v.date >= DateTime::from(*start): DateTime orders as its integer.
DateGe(a, b) == a.ts >= b.ts
DateLe(a, b) == a.ts <= b.ts

\* Trade::new(symbol, value, quantity, date, typ): the order of arguments under
\* which the tests hold (3 trades dated 102..104, cost bases 6.0 and 1.0).
TradeNew(symbol, value, quantity, date, typ) ==
    [symbol |-> symbol, value |-> value, quantity |-> quantity,
     date |-> DateTimeFrom(date), typ |-> typ]

\* DividendPayment: the fields the ledger reads are date, symbol and value.
DividendNew(value, symbol, date) ==
    [symbol |-> symbol, value |-> value, date |-> DateTimeFrom(date)]

\* event.into(): a Trade becomes TradeCompleted, a DividendPayment DividendPaid.
TradeCompleted(trade) == [tag |-> "TradeCompleted", body |-> trade]
DividendPaid(dividend) == [tag |-> "DividendPaid", body |-> dividend]

\* Option<Price>
None == [some |-> FALSE]
Some(p) == [some |-> TRUE, price |-> p]

Abs(n) == IF n < 0 THEN 0 - n ELSE n
Sign(n) == IF n < 0 THEN 0 - 1 ELSE IF n > 0 THEN 1 ELSE 0

RECURSIVE Gcd(_, _)
Gcd(a, b) == IF b = 0 THEN a ELSE Gcd(b, a % b)

\* *cum_val / *cum_qty on f64: the quotient, or NaN (0/0), +inf, -inf.
Div(a, b) ==
    IF b = 0 THEN [num |-> Sign(a), den |-> 0]
    ELSE LET g == Gcd(Abs(a), Abs(b))
         IN [num |-> Sign(b) * (a \div g), den |-> Abs(b) \div g]

-----------------------------------------------------------------------------
(* The queries, as functions of the ledger's Vec *)

\* A trades whose loop puts each trade first: newest first.
RECURSIVE TradesLoopNewestFirst(_, _)
TradesLoopNewestFirst(l, n) ==
    IF n = 0 THEN <<>>
    ELSE IF l[n].tag = "TradeCompleted"
         THEN <<l[n].body>> \o TradesLoopNewestFirst(l, n - 1)
         ELSE TradesLoopNewestFirst(l, n - 1)

\* trades: the loop of lines 23-27 over the first n events.
RECURSIVE TradesLoop(_, _)
TradesLoop(l, n) ==
    IF n = 0 THEN <<>>
    ELSE IF l[n].tag = "TradeCompleted"
         THEN Append(TradesLoop(l, n - 1), l[n].body)
         ELSE TradesLoop(l, n - 1)

trades(l) == TradesLoop(l, Len(l))

\* dividends: the loop of lines 33-37 over the first n events.
RECURSIVE DividendsLoop(_, _)
DividendsLoop(l, n) ==
    IF n = 0 THEN <<>>
    ELSE IF l[n].tag = "DividendPaid"
         THEN Append(DividendsLoop(l, n - 1), l[n].body)
         ELSE DividendsLoop(l, n - 1)

dividends(l) == DividendsLoop(l, Len(l))

\* A filter that leaves out the events dated exactly start.
InRangeAfterStart(v, start, stop) ==
    (~ DateLe(v.date, DateTimeFrom(start))) /\ DateLe(v.date, DateTimeFrom(stop))

\* A filter whose second comparison is turned round.
InRangeStopTurned(v, start, stop) ==
    DateGe(v.date, DateTimeFrom(start)) /\ DateGe(v.date, DateTimeFrom(stop))

\* A filter that joins its comparisons with ||.
InRangeEither(v, start, stop) ==
    DateGe(v.date, DateTimeFrom(start)) \/ DateLe(v.date, DateTimeFrom(stop))

\* The filter closure of lines 45 and 54.
InRange(v, start, stop) ==
    DateGe(v.date, DateTimeFrom(start)) /\ DateLe(v.date, DateTimeFrom(stop))

\* .iter().filter(..).cloned().collect_vec()
RECURSIVE Filter(_, _, _, _)
Filter(s, n, start, stop) ==
    IF n = 0 THEN <<>>
    ELSE IF InRange(s[n], start, stop)
         THEN Append(Filter(s, n - 1, start, stop), s[n])
         ELSE Filter(s, n - 1, start, stop)

dividends_between(l, start, stop) ==
    LET ds == dividends(l) IN Filter(ds, Len(ds), start, stop)

trades_between(l, start, stop) ==
    LET ts == trades(l) IN Filter(ts, Len(ts), start, stop)

\* Accumulators kept from the call before: cum_qty starts where the last
\* cost_basis call left it.
CostInitCarried ==
    IF call.op = "cost_basis" /\ arith # <<>>
    THEN [cum_qty |-> arith[1], cum_val |-> 0]
    ELSE [cum_qty |-> 0, cum_val |-> 0]

\* cost_basis, lines 60-61: the accumulators' defaults.
CostInit == [cum_qty |-> 0, cum_val |-> 0]

\* An accumulation that takes trade.value for a unit price.
CostApplyPriced(acc, trade) ==
    IF trade.typ = "Buy"
    THEN [cum_qty |-> acc.cum_qty + trade.quantity,
          cum_val |-> acc.cum_val + trade.value * trade.quantity]
    ELSE [cum_qty |-> acc.cum_qty - trade.quantity,
          cum_val |-> acc.cum_val - trade.value * trade.quantity]

\* An accumulation with the two fields exchanged.
CostApplySwapped(acc, trade) ==
    IF trade.typ = "Buy"
    THEN [cum_qty |-> acc.cum_qty + trade.value,
          cum_val |-> acc.cum_val + trade.quantity]
    ELSE [cum_qty |-> acc.cum_qty - trade.value,
          cum_val |-> acc.cum_val - trade.quantity]

\* cost_basis, lines 65-74: the match on trade.typ.
CostApply(acc, trade) ==
    IF trade.typ = "Buy"
    THEN [cum_qty |-> acc.cum_qty + trade.quantity,
          cum_val |-> acc.cum_val + trade.value]
    ELSE [cum_qty |-> acc.cum_qty - trade.quantity,
          cum_val |-> acc.cum_val - trade.value]

\* A loop body without the reset.
CostResetNever(acc) == acc

\* A reset that takes a quantity within one unit of zero for zero.
CostResetNearZero(acc) ==
    IF Abs(acc.cum_qty) <= 1 THEN [acc EXCEPT !.cum_val = 0] ELSE acc

\* cost_basis, lines 75-78: reset the value if we are back to zero.
CostReset(acc) ==
    IF acc.cum_qty = 0 THEN [acc EXCEPT !.cum_val = 0] ELSE acc

\* A loop body that does not compare the symbol.
CostStepAnySymbol(acc, event, symbol) ==
    IF event.tag = "TradeCompleted"
    THEN CostReset(CostApply(acc, event.body))
    ELSE acc

\* cost_basis, lines 63-80: the loop body for one event.
CostStep(acc, event, symbol) ==
    IF event.tag = "TradeCompleted" /\ event.body.symbol = symbol
    THEN CostReset(CostApply(acc, event.body))
    ELSE acc

\* cost_basis, lines 62-81: the accumulators after the first n events.
RECURSIVE CostLoop(_, _, _)
CostLoop(l, n, symbol) ==
    IF n = 0 THEN CostInit
    ELSE CostStep(CostLoop(l, n - 1, symbol), l[n], symbol)

\* An end of cost_basis that answers None for every quantity <= 0.
CostFinishNotLong(l, acc) ==
    IF acc.cum_qty <= 0
    THEN [result |-> None, divisors |-> <<>>]
    ELSE [result |-> Some(Div(acc.cum_val, acc.cum_qty)),
          divisors |-> <<acc.cum_qty>>]

\* An end of cost_basis that answers None for an empty ledger only.
CostFinishEmptyOnly(l, acc) ==
    IF Len(l) = 0
    THEN [result |-> None, divisors |-> <<>>]
    ELSE [result |-> Some(Div(acc.cum_val, acc.cum_qty)),
          divisors |-> <<acc.cum_qty>>]

\* cost_basis, lines 82-85: the result, and the divisor of the division
\* when the call reaches it.
CostFinish(l, acc) ==
    IF acc.cum_qty = 0
    THEN [result |-> None, divisors |-> <<>>]
    ELSE [result |-> Some(Div(acc.cum_val, acc.cum_qty)),
          divisors |-> <<acc.cum_qty>>]

\* The first n events in the order of their dates, equal dates as recorded.
RECURSIVE DateOrdered(_, _)
DateOrdered(l, n) ==
    IF n = 0 THEN <<>>
    ELSE LET d == DateOrdered(l, n - 1)
             before == {i \in 1..Len(d) : d[i].body.date.ts <= l[n].body.date.ts}
             k == Cardinality(before)
         IN SubSeq(d, 1, k) \o <<l[n]>> \o SubSeq(d, k + 1, Len(d))

\* A cost_basis that scans the events in the order of their dates.
CostRunByDate(l, symbol) ==
    CostFinish(l, CostLoop(DateOrdered(l, Len(l)), Len(l), symbol))

\* cost_basis, lines 59-86.
CostRun(l, symbol) == CostFinish(l, CostLoop(l, Len(l), symbol))

cost_basis(l, symbol) == CostRun(l, symbol).result

-----------------------------------------------------------------------------
(* The ledger as a state machine *)

Unit == [kind |-> "unit"]

\* A constructor that leaves an event in the ledger.
NewSeeded == <<TradeCompleted(TradeNew("ABC", 1, 1, 1, "Buy"))>>

\* BrokerLog::new, lines 89-93.
new == <<>>

\* Default::default, lines 95-99: Self::new().
default == new

Init ==
    /\ log = new
    /\ call = [op |-> "new"]
    /\ ret = Unit
    /\ arith = <<>>

\* A record that inserts at the head.
PushedFirst(l, event) == <<event>> \o l

\* A record that keeps the ledger in the order of the dates.
PushedByDate(l, event) ==
    LET earlier == {i \in 1..Len(l) : l[i].body.date.ts <= event.body.date.ts}
        k == IF earlier = {} THEN 0
             ELSE CHOOSE i \in earlier : \A j \in earlier : j <= i
    IN SubSeq(l, 1, k) \o <<event>> \o SubSeq(l, k + 1, Len(l))

\* record, line 18: self.log.push(brokerevent).
Pushed(l, event) == Append(l, event)

\* record, lines 16-19.
record(event) ==
    /\ log' = Pushed(log, event)
    /\ call' = [op |-> "record", event |-> event]
    /\ ret' = Unit
    /\ arith' = <<>>

\* tests::setup, lines 110-114: the five trades of the fixture.
SetupTrades ==
    << TradeNew("ABC", 100, 10, 100, "Buy"),
       TradeNew("ABC", 500, 90, 101, "Buy"),
       TradeNew("BCD", 100, 100, 102, "Buy"),
       TradeNew("BCD", 500, 100, 103, "Sell"),
       TradeNew("BCD", 50, 50, 104, "Buy") >>

\* tests::setup, lines 116-120: rec.record(t1) .. rec.record(t5).
RECURSIVE SetupLoop(_)
SetupLoop(n) ==
    IF n = 0 THEN new
    ELSE Pushed(SetupLoop(n - 1), TradeCompleted(SetupTrades[n]))

SetupLog == SetupLoop(Len(SetupTrades))

\* tests::setup, lines 107-122: a new ledger with the five trades recorded.
setup ==
    /\ call.op = "new"
    /\ log' = SetupLog
    /\ call' = [op |-> "setup"]
    /\ ret' = Unit
    /\ arith' = <<>>

\* A query that takes the events out of the ledger.
KeptNone(l) == <<>>

\* The ledger a query leaves behind: each takes &self.
Kept(l) == l

CallTrades ==
    /\ call' = [op |-> "trades"]
    /\ ret' = trades(log)
    /\ log' = Kept(log)
    /\ arith' = <<>>

CallDividends ==
    /\ call' = [op |-> "dividends"]
    /\ ret' = dividends(log)
    /\ log' = Kept(log)
    /\ arith' = <<>>

CallTradesBetween(start, stop) ==
    /\ call' = [op |-> "trades_between", start |-> start, stop |-> stop]
    /\ ret' = trades_between(log, start, stop)
    /\ log' = Kept(log)
    /\ arith' = <<>>

CallDividendsBetween(start, stop) ==
    /\ call' = [op |-> "dividends_between", start |-> start, stop |-> stop]
    /\ ret' = dividends_between(log, start, stop)
    /\ log' = Kept(log)
    /\ arith' = <<>>

CallCostBasis(symbol) ==
    /\ call' = [op |-> "cost_basis", symbol |-> symbol]
    /\ ret' = CostRun(log, symbol).result
    /\ arith' = CostRun(log, symbol).divisors
    /\ log' = Kept(log)

VecOps == {"trades", "dividends", "trades_between", "dividends_between", "caller"}

\* The caller owns the Vec a query returned and may change it: truncate(n).
CallerTruncates ==
    /\ call.op \in VecOps
    /\ \E n \in 0..(Len(ret) - 1) : ret' = SubSeq(ret, 1, n)
    /\ call' = [op |-> "caller"]
    /\ UNCHANGED <<log, arith>>

\* The events recorded under Spec: a trade and a dividend on every date.
TradeInputs == {TradeNew("ABC", 1, 1, d, "Buy") : d \in Dates}
DividendInputs == {DividendNew(1, "ABC", d) : d \in Dates}

\* The range queries made under Spec: from one before the first date to one
\* after the last.
Times == 0..(MaxDate + 1)

Next ==
    \/ Len(log) < MaxLog /\ \E t \in TradeInputs : record(TradeCompleted(t))
    \/ Len(log) < MaxLog /\ \E d \in DividendInputs : record(DividendPaid(d))
    \/ setup
    \/ CallTrades
    \/ CallDividends
    \/ \E start \in Times, stop \in Times : CallTradesBetween(start, stop)
    \/ \E start \in Times, stop \in Times : CallDividendsBetween(start, stop)
    \/ CallTradesBetween(102, 104)
    \/ \E s \in Symbols : CallCostBasis(s)
    \/ CallerTruncates

Spec == Init /\ [][Next]_vars

\* The events recorded under SpecCost: every symbol, side, quantity (zero and
\* negative too: record validates nothing) and value, on one date.
CostInputs ==
    {TradeNew(s, v, q, 1, t) :
        s \in Symbols, v \in Values, q \in Quantities, t \in TradeTypes}

NextCost ==
    \/ Len(log) < MaxLog /\ \E t \in CostInputs : record(TradeCompleted(t))
    \/ Len(log) < MaxLog /\ record(DividendPaid(DividendNew(1, "ABC", 1)))
    \/ setup
    \/ \E s \in Symbols : CallCostBasis(s)

SpecCost == Init /\ [][NextCost]_vars

\* The events recorded under SpecRecord: trades of negative, zero and positive
\* quantity and value on every date, and dividends of such values.
Amounts == (0 - MaxShort)..MaxShort
AnyTradeInputs ==
    {TradeNew("ABC", v, q, d, "Buy") : v \in Amounts, q \in Amounts, d \in Dates}
AnyDividendInputs == {DividendNew(v, "ABC", d) : v \in Amounts, d \in Dates}

NextRecord ==
    \/ Len(log) < MaxLog /\ \E t \in AnyTradeInputs : record(TradeCompleted(t))
    \/ Len(log) < MaxLog /\ \E d \in AnyDividendInputs : record(DividendPaid(d))
    \/ CallTrades
    \/ CallDividends

SpecRecord == Init /\ [][NextRecord]_vars

-----------------------------------------------------------------------------
(* The incremental variant of cost_basis that the design notes allow: running
   accumulators per symbol, updated by each record *)

IncrInit == [s \in Symbols |-> [qty |-> 0, val |-> 0]]

\* The update made when event is recorded.
IncrRecord(running, event) ==
    IF event.tag # "TradeCompleted" THEN running
    ELSE LET t == event.body
             old == running[t.symbol]
             q == IF t.typ = "Buy" THEN old.qty + t.quantity ELSE old.qty - t.quantity
             v == IF t.typ = "Buy" THEN old.val + t.value ELSE old.val - t.value
         IN [running EXCEPT ![t.symbol] =
                [qty |-> q, val |-> IF q = 0 THEN 0 ELSE v]]

\* The accumulators after the first n events have been recorded.
RECURSIVE IncrAfter(_, _)
IncrAfter(l, n) ==
    IF n = 0 THEN IncrInit ELSE IncrRecord(IncrAfter(l, n - 1), l[n])

\* The answer read off the accumulators.
IncrAnswer(running, symbol) ==
    IF running[symbol].qty = 0 THEN None
    ELSE Some(Div(running[symbol].val, running[symbol].qty))

-----------------------------------------------------------------------------
(* What the claims speak of, defined on the event sequence itself *)

Range(s) == {s[i] : i \in DOMAIN s}
IsPrefix(s, t) == Len(s) <= Len(t) /\ SubSeq(t, 1, Len(s)) = s

IsTradeEvent(e) == e.tag = "TradeCompleted"
IsDividendEvent(e) == e.tag = "DividendPaid"
Bodies(s) == [i \in 1..Len(s) |-> s[i].body]
TradeEvents(l) == Bodies(SelectSeq(l, IsTradeEvent))
DividendEvents(l) == Bodies(SelectSeq(l, IsDividendEvent))

Stamp(v) == v.date.ts
Dated(s, start, stop) ==
    SelectSeq(s, LAMBDA v : start <= Stamp(v) /\ Stamp(v) <= stop)

\* The positions of the trades in symbol.
Matches(l, symbol) ==
    {i \in 1..Len(l) : IsTradeEvent(l[i]) /\ l[i].body.symbol = symbol}

SignedQty(t) == IF t.typ = "Buy" THEN t.quantity ELSE 0 - t.quantity
SignedVal(t) == IF t.typ = "Buy" THEN t.value ELSE 0 - t.value

\* The net quantity and the net value of symbol's trades among the first n events.
RECURSIVE NetQty(_, _, _)
NetQty(l, n, symbol) ==
    IF n = 0 THEN 0
    ELSE NetQty(l, n - 1, symbol)
         + (IF n \in Matches(l, symbol) THEN SignedQty(l[n].body) ELSE 0)

RECURSIVE NetVal(_, _, _)
NetVal(l, n, symbol) ==
    IF n = 0 THEN 0
    ELSE NetVal(l, n - 1, symbol)
         + (IF n \in Matches(l, symbol) THEN SignedVal(l[n].body) ELSE 0)

AllBuys(l, symbol) == \A i \in Matches(l, symbol) : l[i].body.typ = "Buy"

\* The net quantity of symbol is non-zero after each of its trades.
NeverFlat(l, symbol) == \A i \in Matches(l, symbol) : NetQty(l, i, symbol) # 0

QueryOps ==
    {"trades", "dividends", "trades_between", "dividends_between", "cost_basis"}

-----------------------------------------------------------------------------
(* The claims *)

\* C1: the ledger is append-only.  A record step makes the log the previous
\* log with the recorded event added at the tail, one longer; and over every
\* step the earlier log is a prefix of the later one.
C1_AppendOnly ==
    [][ /\ call'.op = "record" =>
              /\ log' = Append(log, call'.event)
              /\ Len(log') = Len(log) + 1
        /\ IsPrefix(log, log') ]_vars

\* C1 happens: an event has been recorded onto a ledger that held events.
C1_Witness == call.op = "record" /\ Len(log) >= 2

\* C2: trades() is exactly the TradeCompleted events in insertion order,
\* dividends() exactly the DividendPaid events in insertion order, and the
\* two lengths add up to the length of the log.
C2_TypedSubsequences ==
    /\ call.op = "trades" => ret = TradeEvents(log)
    /\ call.op = "dividends" => ret = DividendEvents(log)
    /\ Len(trades(log)) + Len(dividends(log)) = Len(log)

\* C2 happens: trades() on a ledger with a dividend between two different trades.
C2_Witness ==
    /\ call.op = "trades"
    /\ \E i, j, k \in 1..Len(log) :
          /\ i < j /\ j < k
          /\ IsTradeEvent(log[i]) /\ IsDividendEvent(log[j]) /\ IsTradeEvent(log[k])
          /\ log[i] # log[k]

\* C3, as stated: for a symbol whose trades are all Buys (and whose
\* quantities do not add up to zero), cost_basis is the sum of their values
\* divided by the sum of their quantities.
C3_AllBuysAverage ==
    (/\ call.op = "cost_basis"
     /\ Matches(log, call.symbol) # {}
     /\ AllBuys(log, call.symbol)
     /\ NetQty(log, Len(log), call.symbol) # 0)
    => ret = Some(Div(NetVal(log, Len(log), call.symbol),
                      NetQty(log, Len(log), call.symbol)))

\* C3, amended: for a symbol whose trades are all Buys and whose running
\* quantity is non-zero after each of them (as it is when every quantity is
\* positive), cost_basis is the sum of the values divided by the sum of the
\* quantities; on the ledger of setup(), cost_basis("ABC") is 6.0.
C3_AllBuysNeverFlatAverage ==
    /\ (/\ call.op = "cost_basis"
        /\ Matches(log, call.symbol) # {}
        /\ AllBuys(log, call.symbol)
        /\ NeverFlat(log, call.symbol))
       => ret = Some(Div(NetVal(log, Len(log), call.symbol),
                         NetQty(log, Len(log), call.symbol)))
    /\ (call = [op |-> "cost_basis", symbol |-> "ABC"] /\ log = SetupLog)
       => ret = Some([num |-> 6, den |-> 1])

\* C3 happens: cost_basis over two Buys of different quantities and values,
\* never flat, with an average that is neither trade's own unit price.
C3_Witness ==
    /\ call.op = "cost_basis"
    /\ AllBuys(log, call.symbol)
    /\ NeverFlat(log, call.symbol)
    /\ \E i, j \in Matches(log, call.symbol) :
          /\ i < j
          /\ log[i].body.quantity # log[j].body.quantity
          /\ log[i].body.value # log[j].body.value
          /\ log[i].body.quantity > 0 /\ log[j].body.quantity > 0
          /\ ret.some
          /\ ret.price # Div(log[i].body.value, log[i].body.quantity)
          /\ ret.price # Div(log[j].body.value, log[j].body.quantity)

\* C4: whenever the net quantity of the symbol's trades is exactly zero after
\* one of them, cost_basis is the cost basis of the trades recorded after that
\* point alone; on the ledger of setup(), cost_basis("BCD") is 1.0.
C4_ClosureResets ==
    /\ call.op = "cost_basis" =>
          \A i \in Matches(log, call.symbol) :
              NetQty(log, i, call.symbol) = 0
              => ret = cost_basis(SubSeq(log, i + 1, Len(log)), call.symbol)
    /\ (call = [op |-> "cost_basis", symbol |-> "BCD"] /\ log = SetupLog)
       => ret = Some([num |-> 1, den |-> 1])

\* C4 happens: cost_basis of a position that was closed with a value left
\* over and then opened again.
C4_Witness ==
    /\ call.op = "cost_basis"
    /\ ret.some
    /\ \E i, j \in Matches(log, call.symbol) :
          /\ i < j
          /\ NetQty(log, i, call.symbol) = 0
          /\ NetVal(log, i, call.symbol) # 0

\* C5: cost_basis is None exactly when the symbol's trades net to a quantity
\* of zero, which includes the symbol with no trade; it is Some for every
\* other net quantity, positive or negative.
C5_AbsentIffFlat ==
    call.op = "cost_basis" =>
        /\ (Matches(log, call.symbol) = {} => ret = None)
        /\ (NetQty(log, Len(log), call.symbol) = 0 => ret = None)
        /\ (NetQty(log, Len(log), call.symbol) # 0 => ret.some)

\* C5 happens: cost_basis is None for a symbol with no trade while the other
\* symbol, called next on the same ledger, is short and has a price.
C5_Witness ==
    /\ call.op = "cost_basis"
    /\ Matches(log, call.symbol) = {}
    /\ ret = None
    /\ \E s \in Symbols :
          /\ NetQty(log, Len(log), s) < 0
          /\ cost_basis(log, s).some

\* C6: cost_basis never divides by a cum_qty of zero.
C6_NoDivisionByZero ==
    call.op = "cost_basis" => \A i \in DOMAIN arith : arith[i] # 0

\* C6 happens: cost_basis on a symbol whose trades, one of them of quantity
\* zero or less and a Sell larger than the Buys before it, net to zero: no
\* division is made.
C6_Witness ==
    /\ call.op = "cost_basis"
    /\ NetQty(log, Len(log), call.symbol) = 0
    /\ arith = <<>>
    /\ \E i, j \in Matches(log, call.symbol) :
          /\ log[i].body.quantity <= 0
          /\ log[j].body.typ = "Sell"
          /\ NetQty(log, j, call.symbol) < 0

\* The start and stop values the range queries are called with.
QueryTimes == Times \cup {102, 104}

\* C7: trades_between(start, stop) is, in insertion order, exactly the trades
\* dated t with start <= t <= stop, and dividends_between the same for
\* dividends: an event dated start or stop (start <= stop) is in the result,
\* an event dated start - 1 or stop + 1 is not; trades_between(102, 104) on
\* the ledger of setup() has 3 trades.
C7_InclusiveRange ==
    /\ call.op = "trades_between" =>
          /\ ret = Dated(TradeEvents(log), call.start, call.stop)
          /\ \A t \in Range(TradeEvents(log)) :
                /\ (call.start <= call.stop /\ Stamp(t) \in {call.start, call.stop})
                   => t \in Range(ret)
                /\ Stamp(t) \in {call.start - 1, call.stop + 1} => t \notin Range(ret)
    /\ call.op = "dividends_between" =>
          /\ ret = Dated(DividendEvents(log), call.start, call.stop)
          /\ \A d \in Range(DividendEvents(log)) :
                /\ (call.start <= call.stop /\ Stamp(d) \in {call.start, call.stop})
                   => d \in Range(ret)
                /\ Stamp(d) \in {call.start - 1, call.stop + 1} => d \notin Range(ret)
    /\ (call = [op |-> "trades_between", start |-> 102, stop |-> 104]
        /\ log = SetupLog)
       => Len(ret) = 3

\* C7 happens: a range query on a ledger with a trade dated start, which is
\* returned, and a trade dated stop + 1, which is not.
C7_Witness ==
    /\ call.op = "trades_between"
    /\ call.start <= call.stop
    /\ \E t, u \in Range(TradeEvents(log)) :
          /\ Stamp(t) = call.start /\ t \in Range(ret)
          /\ Stamp(u) = call.stop + 1 /\ u \notin Range(ret)

\* C8: trades_between is idempotent and monotone.  Called again with the same
\* range it returns the same sequence; every trade it returns is returned for
\* every wider range, and is in trades().
C8_IdempotentMonotone ==
    /\ [][(call.op = "trades_between" /\ call' = call) => ret' = ret]_vars
    /\ [](call.op = "trades_between" =>
            /\ \A a, b \in QueryTimes :
                  (a <= call.start /\ call.stop <= b)
                  => Range(ret) \subseteq Range(trades_between(log, a, b))
            /\ Range(ret) \subseteq Range(trades(log)))

\* C8 happens: a range query that returns a trade, on a ledger where a wider
\* range returns more.
C8_Witness ==
    /\ call.op = "trades_between"
    /\ ret # <<>>
    /\ \E a, b \in QueryTimes :
          /\ a <= call.start /\ call.stop <= b
          /\ Len(trades_between(log, a, b)) > Len(ret)

\* C9: with start > stop, trades_between and dividends_between return the
\* empty sequence.
C9_InvertedRangeEmpty ==
    (call.op \in {"trades_between", "dividends_between"} /\ call.start > call.stop)
    => ret = <<>>

\* C9 happens: an inverted range on a ledger holding events dated start and stop.
C9_Witness ==
    /\ call.op = "dividends_between"
    /\ call.start > call.stop
    /\ \E d, e \in Range(dividends(log)) :
          Stamp(d) = call.start /\ Stamp(e) = call.stop
    /\ ret = <<>>

\* C10: no query changes the ledger, and neither does a change the caller
\* makes to a collection a query returned.
C10_QueriesReadOnly ==
    [][call'.op \in QueryOps \cup {"caller"} => log' = log]_vars

\* C10 happens: the caller has cut down the collection trades() returned, on
\* a ledger that holds more trades than are left in it.
C10_Witness ==
    /\ call.op = "caller"
    /\ IsPrefix(ret, trades(log))
    /\ Len(ret) + 2 <= Len(trades(log))

\* The quantities of symbol's trades, in insertion order.
RECURSIVE MatchQuantities(_, _, _)
MatchQuantities(l, n, symbol) ==
    IF n = 0 THEN <<>>
    ELSE IF n \in Matches(l, symbol)
         THEN Append(MatchQuantities(l, n - 1, symbol), l[n].body.quantity)
         ELSE MatchQuantities(l, n - 1, symbol)

\* C11, as stated: on the ledger of setup() cost_basis("ABC") is
\* (100 + 500) / (100 + 101), the quantities of the two ABC buys being 100
\* and 101.
C11_FixtureAverage201 ==
    (call = [op |-> "cost_basis", symbol |-> "ABC"] /\ log = SetupLog)
    => /\ ret = Some(Div(100 + 500, 100 + 101))
       /\ MatchQuantities(log, Len(log), "ABC") = <<100, 101>>

\* C11, amended: on the ledger of setup() cost_basis("ABC") is
\* (100 + 500) / (10 + 90) = 6.0: the quantities of the two ABC buys are 10
\* and 90, and 100 and 101 are their dates.
C11_FixtureAverage100 ==
    (call = [op |-> "cost_basis", symbol |-> "ABC"] /\ log = SetupLog)
    => /\ ret = Some(Div(100 + 500, 10 + 90))
       /\ MatchQuantities(log, Len(log), "ABC") = <<10, 90>>
       /\ \A i \in Matches(log, "ABC") : Stamp(log[i].body) \in {100, 101}

\* C11 happens: cost_basis("ABC") has been called on the ledger of setup().
C11_Witness ==
    /\ call = [op |-> "cost_basis", symbol |-> "ABC"]
    /\ log = SetupLog
    /\ arith = <<100>>

\* C12: record validates nothing and rejects nothing.  In every state it
\* accepts every event, whatever its quantity, value and date, and a record
\* step leaves the earlier events as they were, in their order, with the new
\* event after them.
C12_RecordsAnything ==
    /\ [](\A t \in AnyTradeInputs : ENABLED record(TradeCompleted(t)))
    /\ [](\A d \in AnyDividendInputs : ENABLED record(DividendPaid(d)))
    /\ [][call'.op = "record" => log' = log \o <<call'.event>>]_vars

\* C12 happens: a trade of negative quantity and value zero, dated before the
\* event recorded last, has been recorded after it.
C12_Witness ==
    /\ call.op = "record"
    /\ Len(log) >= 2
    /\ IsTradeEvent(log[Len(log)])
    /\ log[Len(log)].body.quantity < 0
    /\ log[Len(log)].body.value = 0
    /\ Stamp(log[Len(log)].body) < Stamp(log[Len(log) - 1].body)

\* C13: after every sequence of record calls the incremental variant, with
\* per-symbol accumulators updated on each record and the reset at exactly
\* zero, answers for every symbol what cost_basis answers by scanning the log.
C13_IncrementalAgrees ==
    /\ \A s \in Symbols :
          IncrAnswer(IncrAfter(log, Len(log)), s) = cost_basis(log, s)
    /\ call.op = "cost_basis" =>
          ret = IncrAnswer(IncrAfter(log, Len(log)), call.symbol)

\* C13 happens: cost_basis has a price for a symbol whose trades were recorded
\* around a trade in the other symbol, one of them leaving a quantity of one.
C13_Witness ==
    /\ call.op = "cost_basis"
    /\ ret.some
    /\ \E i, j, k \in 1..Len(log) :
          /\ i < j /\ j < k
          /\ i \in Matches(log, call.symbol)
          /\ k \in Matches(log, call.symbol)
          /\ IsTradeEvent(log[j]) /\ j \notin Matches(log, call.symbol)
          /\ NetQty(log, i, call.symbol) = 1

\* The position of the last trade in symbol that left its net quantity at
\* zero, or 0.
LastFlat(l, symbol) ==
    LET flat == {i \in Matches(l, symbol) : NetQty(l, i, symbol) = 0}
    IN IF flat = {} THEN 0 ELSE CHOOSE i \in flat : \A j \in flat : j <= i

\* The Buys in symbol recorded since its position was last flat.
OpenBuys(l, symbol) ==
    {i \in Matches(l, symbol) : i > LastFlat(l, symbol) /\ l[i].body.typ = "Buy"}

\* Every trade in symbol has a positive quantity and value, and the net
\* quantity is never below zero.
LongOnly(l, symbol) ==
    \A i \in Matches(l, symbol) :
        /\ l[i].body.quantity > 0
        /\ l[i].body.value > 0
        /\ NetQty(l, i, symbol) >= 0

\* The unit price value / quantity of trade t is at most, at least, price p.
UnitAtMost(t, p) == t.value * p.den <= p.num * t.quantity
UnitAtLeast(t, p) == t.value * p.den >= p.num * t.quantity

\* C14: for a symbol whose trades all have a positive quantity and value and
\* whose net quantity never goes below zero, a present cost_basis is not
\* negative and lies between the lowest and the highest unit price of the Buys
\* recorded since the position was last flat.
C14_AverageOfOpenBuys ==
    (call.op = "cost_basis" /\ LongOnly(log, call.symbol) /\ ret.some)
    => /\ ret.price.num >= 0
       /\ \E i \in OpenBuys(log, call.symbol) : UnitAtMost(log[i].body, ret.price)
       /\ \E i \in OpenBuys(log, call.symbol) : UnitAtLeast(log[i].body, ret.price)

\* C15: recording a dividend, for any symbol, or a trade in another symbol
\* leaves cost_basis(s) as it was.
C15_OtherEventsIgnored ==
    [][call'.op = "record" =>
          \A s \in Symbols :
              ~ (IsTradeEvent(call'.event) /\ call'.event.body.symbol = s)
              => cost_basis(log', s) = cost_basis(log, s)]_vars

\* C15 happens: cost_basis has a price for a symbol after a dividend in that
\* symbol and a trade in another symbol were recorded behind its one trade.
C15_Witness ==
    /\ call.op = "cost_basis"
    /\ ret.some
    /\ Len(log) = 3
    /\ Matches(log, call.symbol) = {1}
    /\ IsDividendEvent(log[2]) /\ log[2].body.symbol = call.symbol
    /\ IsTradeEvent(log[3])
    /\ ret = cost_basis(SubSeq(log, 1, 1), call.symbol)

\* The ledger l with its i-th event dated f[i].
Redated(l, f) ==
    [i \in 1..Len(l) |-> [l[i] EXCEPT !.body.date = DateTimeFrom(f[i])]]
Redatings(l) == [1..Len(l) -> Dates]

\* C16: cost_basis reads no timestamp.  A ledger holding the same events in
\* the same order under any other dates, in any order of dates, gives the
\* same cost_basis.
C16_DatesIgnored ==
    call.op = "cost_basis" =>
        \A f \in Redatings(log) :
            cost_basis(Redated(log, f), call.symbol) = ret

\* C16 happens: cost_basis on a ledger that has a re-dating with decreasing
\* dates for which a scan in date order would give another result.
C16_Witness ==
    /\ call.op = "cost_basis"
    /\ ret.some
    /\ \E f \in Redatings(log) :
          /\ \E i, j \in 1..Len(log) : i < j /\ f[i] > f[j]
          /\ CostRunByDate(Redated(log, f), call.symbol).result # ret

\* What the recorded events alone say cost_basis is: nothing when the net
\* quantity is zero, else the net value since the position was last flat
\* divided by the net quantity.
RefCost(l, symbol) ==
    LET q == NetQty(l, Len(l), symbol)
        v == NetVal(l, Len(l), symbol) - NetVal(l, LastFlat(l, symbol), symbol)
    IN IF q = 0 THEN None ELSE Some(Div(v, q))

\* C17: cost_basis keeps no state across calls.  Whatever was called before,
\* for whatever symbol, a cost_basis call returns what the recorded events
\* alone determine.
C17_NoStateAcrossCalls ==
    /\ [](call.op = "cost_basis" => ret = RefCost(log, call.symbol))
    /\ [][call'.op = "cost_basis" =>
             (ret' = RefCost(log, call'.symbol) /\ log' = log)]_vars

\* C17 happens: cost_basis has a price for one symbol on a ledger where the
\* other symbol has another price, so that either call may have come first.
C17_Witness ==
    /\ call.op = "cost_basis"
    /\ ret.some
    /\ \E s \in Symbols \ {call.symbol} :
          /\ RefCost(log, s).some
          /\ RefCost(log, s) # ret

\* C18: a ledger made by new() or default() is empty.  Before any record,
\* trades(), dividends() and the range queries return empty sequences for all
\* ranges, cost_basis returns None for every symbol, and new() and default()
\* are equal ledgers.
C18_NewIsEmpty ==
    /\ default = new
    /\ call.op = "new" => (log = new /\ Len(log) = 0)
    /\ log = new =>
          /\ call.op \in {"trades", "dividends", "trades_between", "dividends_between"}
             => ret = <<>>
          /\ call.op = "cost_basis" => ret = None
          /\ trades(log) = <<>> /\ dividends(log) = <<>>
          /\ \A a, b \in Times :
                trades_between(log, a, b) = <<>> /\ dividends_between(log, a, b) = <<>>
          /\ \A s \in Symbols : cost_basis(log, s) = None

\* C18 happens: a range query on the ledger nothing was recorded on.
C18_Witness ==
    /\ call.op = "dividends_between"
    /\ call.start < call.stop
    /\ log = default
    /\ ret = <<>>

====
